---- MODULE Spec2Model ----
(***************************************************************************)
(* Newton-Raphson solver with a complex-step Jacobian (complex_step.cpp). *)
(*                                                                         *)
(* Arithmetic is exact.  A double is a rational n/d in lowest terms with   *)
(* d > 0; the record with d = 0 stands for NaN and is absorbing, as in     *)
(* IEEE-754.  PROBEDISTANCE (1.0E-22) is kept symbolic as h:               *)
(*   - an entry of currentGuess / offsets is  re + i*im*h      [re, im]    *)
(*   - an entry of targetsCalculated is  re + re2*h^2 + i*im*h             *)
(*                                                         [re, re2, im]   *)
(* so every result below holds for every probe distance h > 0.             *)
(***************************************************************************)
EXTENDS Integers, Sequences, FiniteSets, TLC

\* ------------------------------------------------------------ constants
NUMDIMENSIONS == 3
MAXITERATIONS == 9
Dims == 0 .. (NUMDIMENSIONS - 1)

\* ------------------------------------------------------------ bounds
\* initial guesses are drawn from the grid (0..MaxCoord)^3
MaxCoord == 2

\* ------------------------------------------------------------ doubles
NaN == [n |-> 0, d |-> 0]
IsNaN(a) == a.d = 0

Abs(i) == IF i < 0 THEN -i ELSE i

RECURSIVE GCD(_, _)
GCD(a, b) == IF b = 0 THEN a ELSE GCD(b, a % b)

\* n/d in lowest terms, d > 0
Rat(n, d) == LET g == GCD(Abs(n), d) IN [n |-> n \div g, d |-> d \div g]

Int2R(k) == [n |-> k, d |-> 1]
Zero == Int2R(0)

RNeg(a) == IF IsNaN(a) THEN NaN ELSE [n |-> -a.n, d |-> a.d]

RAdd(a, b) ==
    IF IsNaN(a) \/ IsNaN(b) THEN NaN
    ELSE LET g == GCD(a.d, b.d)
         IN Rat(a.n * (b.d \div g) + b.n * (a.d \div g), (a.d \div g) * b.d)

RSub(a, b) == RAdd(a, RNeg(b))

\* cross-cancelled product, so no intermediate exceeds the result's size
RMul(a, b) ==
    IF IsNaN(a) \/ IsNaN(b) THEN NaN
    ELSE LET g1 == GCD(Abs(a.n), b.d)
             g2 == GCD(Abs(b.n), a.d)
         IN [n |-> (a.n \div g1) * (b.n \div g2),
             d |-> (a.d \div g2) * (b.d \div g1)]

\* a / b; 0/0 and NaN operands give NaN
RDiv(a, b) ==
    IF IsNaN(a) \/ IsNaN(b) \/ b.n = 0 THEN NaN
    ELSE RMul(a, IF b.n < 0 THEN [n |-> -b.d, d |-> -b.n]
                            ELSE [n |-> b.d, d |-> b.n])

\* ------------------------------------------------------------ std::complex<double>
\* re + i*im*h
Cx(re, im) == [re |-> re, im |-> im]
CxReal(k) == Cx(Int2R(k), Zero)

\* re + re2*h^2 + i*im*h
Tg(re, re2, im) == [re |-> re, re2 |-> re2, im |-> im]
TgZero == Tg(Zero, Zero, Zero)

CxSub(a, b) == Cx(RSub(a.re, b.re), RSub(a.im, b.im))

\* (re + i*im*h)^2 = re^2 - im^2*h^2 + i*2*re*im*h
CxSquare(z) ==
    Tg(RMul(z.re, z.re), RNeg(RMul(z.im, z.im)), RMul(Int2R(2), RMul(z.re, z.im)))

CxToTg(z) == Tg(z.re, Zero, z.im)

\* z * s for a real double s
CxScale(z, s) == Cx(RMul(z.re, s), RMul(z.im, s))

TgAdd(a, b) == Tg(RAdd(a.re, b.re), RAdd(a.re2, b.re2), RAdd(a.im, b.im))
TgSub(a, b) == Tg(RSub(a.re, b.re), RSub(a.re2, b.re2), RSub(a.im, b.im))

\* arma::real: the h^2 coefficient is zero whenever the real part is taken
\* (only evaluations at an iterate with zero imaginary part are read)
Real(t) == t.re

\* mutant: the column is taken from the real part
ImagOverProbe_Real(t) == t.re

\* arma::imag(t) * pow(PROBEDISTANCE, -1.0): the coefficient of h
ImagOverProbe(t) == t.im

\* mutant: the sign of the z term does not alternate
PowMinusOne_NoAlternation(i) == Int2R(1)

\* pow(-1.0, i)
PowMinusOne(i) == Int2R(IF i % 2 = 0 THEN 1 ELSE -1)

\* ------------------------------------------------------------ big naturals
\* little-endian digit sequences in base 10000, used only to compare
\* products that do not fit a machine integer
RECURSIVE BigOf(_)
BigOf(k) == IF k = 0 THEN <<>> ELSE <<k % 10000>> \o BigOf(k \div 10000)

RECURSIVE BigAdd(_, _, _)
BigAdd(a, b, c) ==
    IF a = <<>> /\ b = <<>> THEN BigOf(c)
    ELSE LET x == IF a = <<>> THEN 0 ELSE Head(a)
             y == IF b = <<>> THEN 0 ELSE Head(b)
             s == x + y + c
         IN <<s % 10000>> \o BigAdd(IF a = <<>> THEN a ELSE Tail(a),
                                    IF b = <<>> THEN b ELSE Tail(b),
                                    s \div 10000)

\* a * k + c for one digit k
RECURSIVE BigScale(_, _, _)
BigScale(a, k, c) ==
    IF a = <<>> THEN BigOf(c)
    ELSE LET s == Head(a) * k + c
         IN <<s % 10000>> \o BigScale(Tail(a), k, s \div 10000)

RECURSIVE BigMul(_, _)
BigMul(a, b) ==
    IF a = <<>> \/ b = <<>> THEN <<>>
    ELSE LET rest == BigMul(a, Tail(b))
         IN BigAdd(BigScale(a, Head(b), 0),
                   IF rest = <<>> THEN rest ELSE <<0>> \o rest, 0)

\* -1, 0, 1 as a < b, a = b, a > b
RECURSIVE BigCmp(_, _)
BigCmp(a, b) ==
    IF a = <<>> /\ b = <<>> THEN 0
    ELSE LET x == IF a = <<>> THEN 0 ELSE Head(a)
             y == IF b = <<>> THEN 0 ELSE Head(b)
             hi == BigCmp(IF a = <<>> THEN a ELSE Tail(a),
                          IF b = <<>> THEN b ELSE Tail(b))
         IN IF hi # 0 THEN hi ELSE IF x < y THEN -1 ELSE IF x > y THEN 1 ELSE 0

\* ------------------------------------------------------------ double error
\* A residual norm is the surd num*sqrt(rad)/den (num, rad >= 0, den > 0);
\* den = 0 is NaN.
Err(num, rad, den) == [num |-> num, rad |-> rad, den |-> den]
ErrIsNaN(e) == e.den = 0

\* numerator and denominator of e^2
ErrSqNum(e) == BigMul(BigMul(BigOf(e.num), BigOf(e.num)), BigOf(e.rad))
ErrSqDen(e) == BigMul(BigOf(e.den), BigOf(e.den))

\* a < b on doubles: false when either is NaN
ErrLess(a, b) ==
    /\ ~ErrIsNaN(a)
    /\ ~ErrIsNaN(b)
    /\ BigCmp(BigMul(ErrSqNum(a), ErrSqDen(b)), BigMul(ErrSqNum(b), ErrSqDen(a))) < 0

ErrEqual(a, b) ==
    /\ ~ErrIsNaN(a)
    /\ ~ErrIsNaN(b)
    /\ BigCmp(BigMul(ErrSqNum(a), ErrSqDen(b)), BigMul(ErrSqNum(b), ErrSqDen(a))) = 0

\* const double ERRORTOLLERANCE = 1.0E-4
ERRORTOLLERANCE == Err(1, 1, 10000)

\* mutant: the error starts at zero
InitialError_Zero == Err(0, 1, 1)

\* double error = 1.0E5
InitialError == Err(100000, 1, 1)

\* least common denominator of v[0..k]
RECURSIVE CommonDen(_, _)
CommonDen(v, k) ==
    IF k < 0 THEN 1
    ELSE LET l == CommonDen(v, k - 1)
         IN (l \div GCD(l, v[k].d)) * v[k].d

\* sum of the squared numerators of v[0..k] over the common denominator D
RECURSIVE SumSquares(_, _, _)
SumSquares(v, D, k) ==
    IF k < 0 THEN 0
    ELSE LET m == v[k].n * (D \div v[k].d)
         IN SumSquares(v, D, k - 1) + m * m

\* arma::norm(v, 2)
Norm2(v) ==
    IF \E k \in Dims : IsNaN(v[k]) THEN Err(0, 0, 0)
    ELSE LET D == CommonDen(v, NUMDIMENSIONS - 1)
         IN Err(1, SumSquares(v, D, NUMDIMENSIONS - 1), D)

\* ------------------------------------------------------------ the model F
\* main: offsets.fill(0.0); offsets.col(0)[0] = offsets.col(2)[1] =
\* offsets.col(2)[2] = 1.0.  offsets[i][c] is row i, column c.
offsets ==
    [i \in Dims |-> [c \in Dims |->
        IF (i = 0 /\ c = 0) \/ (i = 1 /\ c = 2) \/ (i = 2 /\ c = 2)
        THEN CxReal(1) ELSE CxReal(0)]]

\* main: targetsDesired.fill(0.0), never written afterwards
targetsDesired == [i \in Dims |-> TgZero]

\* targetsCalculated[i] = sum((guess[0..1] - offsets[i][0..1])^2)
\*                        + guess[2]*pow(-1.0, i) - offsets[i][2]
calculateDependentVariables(myOffsets, myCurrentGuess) ==
    [i \in Dims |->
        LET squares == TgAdd(CxSquare(CxSub(myCurrentGuess[0], myOffsets[i][0])),
                             CxSquare(CxSub(myCurrentGuess[1], myOffsets[i][1])))
        IN TgSub(TgAdd(squares, CxToTg(CxScale(myCurrentGuess[2], PowMinusOne(i)))),
                 CxToTg(myOffsets[i][2]))]

\* ------------------------------------------------------------ calculateJacobian
\* myCurrentGuess[j] += std::complex<double>(0.0, PROBEDISTANCE)
Perturbed(z) == Cx(z.re, RAdd(z.im, Int2R(1)))

\* mutant: the perturbed coordinate is not restored
Restored_Skip(old, cur) == cur

\* myCurrentGuess[j] = oldGuessValue
Restored(old, cur) == old

\* myJacobian.col(j) = imag(myTargetsCalculated) * pow(PROBEDISTANCE, -1.0)
SetColumn(myJacobian, j, myTargetsCalculated) ==
    [k \in Dims |-> [c \in Dims |->
        IF c = j THEN ImagOverProbe(myTargetsCalculated[k]) ELSE myJacobian[k][c]]]

\* mutant: the evaluation of the last column is left in place
ResetToUnperturbed_Keep(unperturbed, perturbed) == perturbed

\* myTargetsCalculated = unperturbedTargetsCalculated
ResetToUnperturbed(unperturbed, perturbed) == unperturbed

\* ------------------------------------------------------------ solve
Det3(M) ==
    RAdd(RSub(RMul(M[0][0], RSub(RMul(M[1][1], M[2][2]), RMul(M[1][2], M[2][1]))),
              RMul(M[0][1], RSub(RMul(M[1][0], M[2][2]), RMul(M[1][2], M[2][0])))),
         RMul(M[0][2], RSub(RMul(M[1][0], M[2][1]), RMul(M[1][1], M[2][0]))))

ReplaceColumn(M, c, b) ==
    [k \in Dims |-> [cc \in Dims |-> IF cc = c THEN b[k] ELSE M[k][cc]]]

\* arma::solve(A, B, true): the solution of A*X = B, or no solution (a thrown
\* std::runtime_error) when A is singular
solve(A, B) ==
    LET det == Det3(A)
    IN IF det = Zero
       THEN [ok |-> FALSE, X |-> [k \in Dims |-> Zero]]
       ELSE [ok |-> TRUE,
             X |-> [k \in Dims |-> RDiv(Det3(ReplaceColumn(A, k, B)), det)]]

\* ------------------------------------------------------------ updateGuess
\* myRealTargets = arma::real(myTargetsCalculated)
RealTargets(myTargetsCalculated) == [k \in Dims |-> Real(myTargetsCalculated[k])]

\* the right-hand side -myRealTargets of the solve
UpdateRhs(myRealTargets) == [k \in Dims |-> RNeg(myRealTargets[k])]

\* myCurrentGuess + X for a real X
AddStep(myCurrentGuess, X) ==
    [k \in Dims |-> Cx(RAdd(myCurrentGuess[k].re, X[k]), myCurrentGuess[k].im)]

\* ------------------------------------------------------------ calculateResidual
\* arma::norm(arma::real(myTargetsDesired - myTargetsCalculated), 2)
calculateResidual(myTargetsDesired, myTargetsCalculated) ==
    Norm2([k \in Dims |-> Real(TgSub(myTargetsDesired[k], myTargetsCalculated[k]))])

\* ------------------------------------------------------------ main
\* mutant: the iteration cap is not tested
LoopCondition_NoCap(c, e) == ErrLess(ERRORTOLLERANCE, e)

\* mutant: the loop stops one iteration early
LoopCondition_OffByOne(c, e) == c < MAXITERATIONS - 1 /\ ErrLess(ERRORTOLLERANCE, e)

\* while(count < MAXITERATIONS and error > ERRORTOLLERANCE)
LoopCondition(c, e) == c < MAXITERATIONS /\ ErrLess(ERRORTOLLERANCE, e)

\* count ++
Incremented(c) == c + 1

\* ------------------------------------------------------------ state
VARIABLES
    pc,                            \* position in main / calculateJacobian
    run,                           \* 1: first call of the driver, 2: second call
    initialGuess,                  \* the guess this call started from
    previousError,                 \* final error of the previous call
    currentGuess,
    targetsCalculated,
    realTargetsCalculated,
    jacobian,
    count,
    error,
    j,                             \* calculateJacobian: column index
    oldGuessValue,                 \* calculateJacobian: saved coordinate
    unperturbedTargetsCalculated,  \* calculateJacobian: F at the iterate
    reported                       \* the final report (lines 162-167) was printed

vars == <<pc, run, initialGuess, previousError, currentGuess, targetsCalculated,
          realTargetsCalculated, jacobian, count, error, j, oldGuessValue,
          unperturbedTargetsCalculated, reported>>

main == <<run, initialGuess, previousError, count, error, reported>>
locals == <<j, oldGuessValue, unperturbedTargetsCalculated>>

\* currentGuess.fill(2.0)
ReferenceGuess == [k \in Dims |-> CxReal(2)]
\* the root named in the header notes
RootGuess == [k \in Dims |-> IF k = 0 THEN CxReal(1) ELSE CxReal(0)]
\* a guess too far away to converge within MAXITERATIONS
SlowGuess == [k \in Dims |-> CxReal(4)]
\* a guess whose first coordinate is not a finite double
NonFiniteGuess == [k \in Dims |-> IF k = 0 THEN Cx(NaN, Zero) ELSE CxReal(2)]

InitialGuesses ==
    {[k \in Dims |-> CxReal(f[k])] : f \in [Dims -> 0 .. MaxCoord]}
        \cup {ReferenceGuess, RootGuess, SlowGuess, NonFiniteGuess}

ZeroTargets == [k \in Dims |-> TgZero]
ZeroVector == [k \in Dims |-> Zero]
ZeroMatrix == [k \in Dims |-> [c \in Dims |-> Zero]]

\* main, lines 102-127, started from guess g
Start(g) ==
    /\ pc = "loop"
    /\ initialGuess = g
    /\ currentGuess = g
    /\ targetsCalculated = ZeroTargets
    /\ realTargetsCalculated = ZeroVector
    /\ jacobian = ZeroMatrix
    /\ count = 0
    /\ error = InitialError
    /\ j = 0
    /\ oldGuessValue = CxReal(0)
    /\ unperturbedTargetsCalculated = ZeroTargets
    /\ reported = FALSE

Init ==
    /\ run = 1
    /\ previousError = InitialError
    /\ \E g \in InitialGuesses : Start(g)

\* line 130, condition true
LoopEnter ==
    /\ pc = "loop"
    /\ LoopCondition(count, error)
    /\ pc' = "calculateJacobian"
    /\ UNCHANGED <<main, locals, currentGuess, targetsCalculated,
                   realTargetsCalculated, jacobian>>

\* line 130, condition false; lines 162-169
LoopExit ==
    /\ pc = "loop"
    /\ ~LoopCondition(count, error)
    /\ pc' = "done"
    /\ reported' = TRUE
    /\ UNCHANGED <<run, initialGuess, previousError, count, error, locals,
                   currentGuess, targetsCalculated, realTargetsCalculated, jacobian>>

\* calculateJacobian, lines 200-203
JacobianBegin ==
    /\ pc = "calculateJacobian"
    /\ unperturbedTargetsCalculated' = calculateDependentVariables(offsets, currentGuess)
    /\ oldGuessValue' = CxReal(0)
    /\ j' = 0
    /\ pc' = "perturb"
    /\ UNCHANGED <<main, currentGuess, targetsCalculated, realTargetsCalculated, jacobian>>

\* calculateJacobian, lines 214-215
Perturb ==
    /\ pc = "perturb"
    /\ oldGuessValue' = currentGuess[j]
    /\ currentGuess' = [currentGuess EXCEPT ![j] = Perturbed(@)]
    /\ pc' = "evaluate"
    /\ UNCHANGED <<main, j, unperturbedTargetsCalculated, targetsCalculated,
                   realTargetsCalculated, jacobian>>

\* calculateJacobian, lines 218-230
EvaluateColumn ==
    /\ pc = "evaluate"
    /\ targetsCalculated' = calculateDependentVariables(offsets, currentGuess)
    /\ jacobian' = SetColumn(jacobian, j, targetsCalculated')
    /\ pc' = "restore"
    /\ UNCHANGED <<main, locals, currentGuess, realTargetsCalculated>>

\* calculateJacobian, line 234 and the loop header of line 211
Restore ==
    /\ pc = "restore"
    /\ currentGuess' = [currentGuess EXCEPT ![j] = Restored(oldGuessValue, @)]
    /\ j' = j + 1
    /\ pc' = IF j + 1 < NUMDIMENSIONS THEN "perturb" ELSE "reset"
    /\ UNCHANGED <<main, oldGuessValue, unperturbedTargetsCalculated,
                   targetsCalculated, realTargetsCalculated, jacobian>>

\* calculateJacobian, lines 238-239: the locals die with the call
JacobianReturn ==
    /\ pc = "reset"
    /\ targetsCalculated' =
           ResetToUnperturbed(unperturbedTargetsCalculated, targetsCalculated)
    /\ j' = 0
    /\ oldGuessValue' = CxReal(0)
    /\ unperturbedTargetsCalculated' = ZeroTargets
    /\ pc' = "updateGuess"
    /\ UNCHANGED <<main, currentGuess, realTargetsCalculated, jacobian>>

\* updateGuess, lines 250-251, the solve succeeds
UpdateGuess ==
    /\ pc = "updateGuess"
    /\ realTargetsCalculated' = RealTargets(targetsCalculated)
    /\ LET s == solve(jacobian, UpdateRhs(realTargetsCalculated'))
       IN /\ s.ok
          /\ currentGuess' = AddStep(currentGuess, s.X)
    /\ pc' = "calculateDependentVariables"
    /\ UNCHANGED <<main, locals, targetsCalculated, jacobian>>

\* updateGuess, lines 250-251, the solve throws: nothing in main catches it,
\* the process ends without reaching lines 147-169
UpdateGuessThrows ==
    /\ pc = "updateGuess"
    /\ realTargetsCalculated' = RealTargets(targetsCalculated)
    /\ ~solve(jacobian, UpdateRhs(realTargetsCalculated')).ok
    /\ pc' = "aborted"
    /\ UNCHANGED <<main, locals, currentGuess, targetsCalculated, jacobian>>

\* main, lines 148-150
Evaluate ==
    /\ pc = "calculateDependentVariables"
    /\ targetsCalculated' = calculateDependentVariables(offsets, currentGuess)
    /\ pc' = "calculateResidual"
    /\ UNCHANGED <<main, locals, currentGuess, realTargetsCalculated, jacobian>>

\* main, lines 153-155
Residual ==
    /\ pc = "calculateResidual"
    /\ error' = calculateResidual(targetsDesired, targetsCalculated)
    /\ pc' = "increment"
    /\ UNCHANGED <<run, initialGuess, previousError, count, reported, locals,
                   currentGuess, targetsCalculated, realTargetsCalculated, jacobian>>

\* main, lines 157-160
Increment ==
    /\ pc = "increment"
    /\ count' = Incremented(count)
    /\ pc' = "loop"
    /\ UNCHANGED <<run, initialGuess, previousError, error, reported, locals,
                   currentGuess, targetsCalculated, realTargetsCalculated, jacobian>>

Converged == ~ErrIsNaN(error) /\ ~ErrLess(ERRORTOLLERANCE, error)

\* the driver is called again with the final iterate of a converged first
\* call as its initial guess
SecondCall ==
    /\ pc = "done"
    /\ run = 1
    /\ Converged
    /\ run' = 2
    /\ previousError' = error
    /\ pc' = "loop"
    /\ initialGuess' = currentGuess
    /\ targetsCalculated' = ZeroTargets
    /\ realTargetsCalculated' = ZeroVector
    /\ jacobian' = ZeroMatrix
    /\ count' = 0
    /\ error' = InitialError
    /\ reported' = FALSE
    /\ UNCHANGED <<currentGuess, locals>>

Next ==
    \/ LoopEnter
    \/ LoopExit
    \/ JacobianBegin
    \/ Perturb
    \/ EvaluateColumn
    \/ Restore
    \/ JacobianReturn
    \/ UpdateGuess
    \/ UpdateGuessThrows
    \/ Evaluate
    \/ Residual
    \/ Increment
    \/ SecondCall

Spec == Init /\ [][Next]_vars

\* ------------------------------------------------------------ properties
Terminated == pc \in {"done", "aborted"}
ToleranceExceeded == ErrLess(ERRORTOLLERANCE, error)
IterateFinite == \A k \in Dims : ~IsNaN(currentGuess[k].re)
ModelNonFinite ==
    \E k \in Dims : IsNaN(targetsCalculated[k].re) \/ IsNaN(targetsCalculated[k].im)

\* q rounded to the nearest multiple of 1/scale, as a count of such multiples
Round(q, scale) == (2 * q.n * scale + q.d) \div (2 * q.d)
RoundedGuess(scale) == [k \in Dims |-> Round(currentGuess[k].re, scale)]

\* the final iterate of the reference run
ReferenceFinal ==
    [k \in Dims |-> Cx(IF k = 0 THEN Int2R(1) ELSE IF k = 1 THEN Rat(5, 1024) ELSE Zero,
                       Zero)]

\* C1 (as stated): the reference run (guess (2,2,2)) ends converged and its
\* final iterate rounds to (1.000, 0.000, 0.000) at three decimals.
C1_ReferenceThreeDecimals ==
    (run = 1 /\ initialGuess = ReferenceGuess) =>
        /\ pc # "aborted"
        /\ pc = "done" =>
              /\ Converged
              /\ RoundedGuess(1000) = [k \in Dims |-> IF k = 0 THEN 1000 ELSE 0]

\* C1 (amended): the reference run ends converged after 9 iterations at the
\* iterate (1, 5/1024, 0), which rounds to (1.00, 0.00, 0.00) at two decimals
\* and to (1.000, 0.005, 0.000) at three.
C1_ReferenceTwoDecimals ==
    (run = 1 /\ initialGuess = ReferenceGuess) =>
        /\ pc # "aborted"
        /\ pc = "done" =>
              /\ Converged
              /\ count = MAXITERATIONS
              /\ currentGuess = ReferenceFinal
              /\ RoundedGuess(100) = [k \in Dims |-> IF k = 0 THEN 100 ELSE 0]
              /\ RoundedGuess(1000) =
                     [k \in Dims |-> IF k = 0 THEN 1000 ELSE IF k = 1 THEN 5 ELSE 0]

C1_Witness == pc = "done" /\ run = 1 /\ initialGuess = ReferenceGuess /\ reported

\* steps left in the current iteration, at most 15
StepsLeft ==
    CASE pc = "loop" -> 15
      [] pc = "calculateJacobian" -> 14
      [] pc = "perturb" -> 13 - 3 * j
      [] pc = "evaluate" -> 12 - 3 * j
      [] pc = "restore" -> 11 - 3 * j
      [] pc = "reset" -> 4
      [] pc = "updateGuess" -> 3
      [] pc = "calculateDependentVariables" -> 2
      [] pc = "calculateResidual" -> 1
      [] OTHER -> 0

\* an upper bound on the number of steps the program can still take
Variant ==
    (2 - run) * 16 * (MAXITERATIONS + 1)
        + (IF Terminated THEN 0 ELSE 16 * (MAXITERATIONS - count) + StepsLeft)

\* C2: count starts at 0, changes only by +1 at the end of an iteration (or
\* back to 0 when the driver is called again), an iteration starts only while
\* count < MAXITERATIONS and error > ERRORTOLLERANCE, count never exceeds
\* MAXITERATIONS, and the driver terminates: every step strictly decreases a
\* natural number.
C2_Terminates ==
    /\ [](count \in 0 .. MAXITERATIONS /\ Variant \in Nat)
    /\ [][Variant' < Variant]_vars
    /\ [][(pc = "loop" /\ pc' = "calculateJacobian") =>
              (count < MAXITERATIONS /\ ToleranceExceeded)]_vars
    /\ [][count' # count =>
              \/ pc = "increment" /\ count' = count + 1
              \/ pc = "done" /\ count' = 0]_vars

C2_Witness == pc = "done" /\ count = MAXITERATIONS

\* C3: when the loop exits with a finite residual, either error <= tolerance
\* (converged) or count = MAXITERATIONS and error > tolerance (cap exceeded);
\* an exit with count < MAXITERATIONS and error > tolerance does not occur.
C3_ExitStates ==
    pc = "done" =>
        /\ ~(count < MAXITERATIONS /\ ToleranceExceeded)
        /\ ~ErrIsNaN(error) =>
              Converged \/ (count = MAXITERATIONS /\ ToleranceExceeded)

C3_Witness == pc = "done" /\ count = MAXITERATIONS /\ ToleranceExceeded /\ ~Converged

\* C4: when the solve in updateGuess fails on a singular Jacobian the driver
\* still reports its partial results (iterate, residual, count).
C4_SolverFailedReported == pc = "aborted" => reported

\* C5: a run in which a model evaluation returned a non-finite value is never
\* reported through the normal final report (as converged or cap exceeded).
C5_ModelFailedNotReported == ModelNonFinite => ~reported

\* C6 (as stated): a second call started from the final iterate of a converged
\* call ends after at most one iteration with the residual unchanged.
C6_SecondCallUnchanged ==
    (run = 2 /\ pc = "done") => (count <= 1 /\ ErrEqual(error, previousError))

\* C6 (amended): such a second call never fails, ends after exactly one
\* iteration, converged, and its residual is exactly one quarter of the first
\* call's final residual (so strictly smaller, not unchanged).
C6_SecondCallQuarter ==
    run = 2 =>
        /\ pc # "aborted"
        /\ pc = "done" =>
              /\ count = 1
              /\ Converged
              /\ ErrEqual(Err(4 * error.num, error.rad, error.den), previousError)
              /\ ErrLess(error, previousError)

C6_Witness == run = 2 /\ pc = "done" /\ initialGuess = ReferenceFinal

MatVec(M, X) ==
    [k \in Dims |-> RAdd(RAdd(RMul(M[k][0], X[0]), RMul(M[k][1], X[1])), RMul(M[k][2], X[2]))]

\* C8: updateGuess reads the unperturbed evaluation at the pre-update iterate,
\* the step it applies solves J*step = -(F - F*) with that F, and the
\* post-update evaluation only scores the new iterate.
C8_NewtonStep ==
    /\ [](pc = "updateGuess" =>
              targetsCalculated = calculateDependentVariables(offsets, currentGuess))
    /\ [][(pc = "updateGuess" /\ pc' = "calculateDependentVariables") =>
              (LET F == calculateDependentVariables(offsets, currentGuess)
                   step == [k \in Dims |-> RSub(currentGuess'[k].re, currentGuess[k].re)]
               IN MatVec(jacobian, step) =
                      [k \in Dims |-> RNeg(RSub(Real(F[k]), Real(targetsDesired[k])))])]_vars
    /\ [](pc = "increment" =>
              error = calculateResidual(targetsDesired,
                          calculateDependentVariables(offsets, currentGuess)))

C8_Witness ==
    pc = "calculateDependentVariables" /\ count >= 1 /\ IterateFinite
        /\ currentGuess[1].re # Zero

\* C9: outside the column loop every coordinate of currentGuess has imaginary
\* part 0; while column j is assembled coordinate j has imaginary part h and
\* the others 0; calculateJacobian never changes a real part.
C9_ImaginaryParts ==
    /\ [](\A k \in Dims :
              currentGuess[k].im =
                  IF pc \in {"evaluate", "restore"} /\ k = j THEN Int2R(1) ELSE Zero)
    /\ [][(pc \in {"calculateJacobian", "perturb", "evaluate", "restore", "reset"}) =>
              (\A k \in Dims : currentGuess'[k].re = currentGuess[k].re)]_vars

C9_Witness == pc = "restore" /\ j = 1 /\ count >= 1

\* the analytic Jacobian of the paraboloid model at a real iterate x
AnalyticJacobian(x) ==
    [k \in Dims |-> [c \in Dims |->
        IF c = 2 THEN Int2R(IF k = 1 THEN -1 ELSE 1)
        ELSE RMul(Int2R(2), RSub(x[c].re, offsets[k][c].re))]]

\* C10: at every finite real iterate the Jacobian built by calculateJacobian
\* equals the analytic Jacobian.
C10_JacobianAnalytic ==
    (pc = "updateGuess" /\ IterateFinite) => jacobian = AnalyticJacobian(currentGuess)

C10_Witness ==
    pc = "updateGuess" /\ count >= 1 /\ IterateFinite /\ currentGuess[1].re.d > 1

====
